---- MODULE Spec2Model ----
(***************************************************************************)
(* A model of pacdef's driver (src/core.rs): the Pacdef session and its    *)
(* actions clean, edit, groups, sync, unmanaged and version, together with *)
(* the collaborators the driver calls (the backend registry, the backend   *)
(* capability contract, the ToDoPerBackend aggregate and the confirmation  *)
(* prompt), which live in other modules of the crate.                      *)
(***************************************************************************)
EXTENDS Integers, Sequences, FiniteSets, TLC

(* ---------------------------------------------------------------------- *)
(* Bounds and the input universe                                           *)
(* ---------------------------------------------------------------------- *)

\* Number of distinct package names the inputs are drawn from.
NumPkgs == 2

\* Package names are strings; a name is modelled as its sequence of character
\* codes so that the lexicographic order is computed, not assumed.  The list
\* is deliberately not in ascending order.
PkgNames == << <<2>>, <<1, 2>>, <<1>>, <<2, 1>> >>

Packages == {PkgNames[i] : i \in 1..NumPkgs}

\* Group names, again as character-code sequences (not in ascending order).
GroupNames == << <<2, 1>>, <<1>> >>

\* The fixed enumeration order of the backend variants (Backends::iter()).
Registry == <<"pacman", "rust">>

Sections == {Registry[i] : i \in 1..Len(Registry)}

SectionIndex(s) == CHOOSE i \in 1..Len(Registry) : Registry[i] = s

\* The Group values a session can be given: group k declares, for the
\* backend at registry position i, the packages j with j + k + i even.
GroupUniverse ==
    {[name |-> GroupNames[k],
      packages |-> [s \in Sections |->
                      {PkgNames[j] : j \in {j \in 1..NumPkgs :
                                              (j + k + SectionIndex(s)) % 2 = 0}}]]
       : k \in 1..Len(GroupNames)}

\* The subcommands run_action_from_arg dispatches on.
CLEAN == "clean"
EDIT == "edit"
GROUPS == "groups"
SYNC == "sync"
UNMANAGED == "unmanaged"
VERSION == "version"

Actions == {CLEAN, EDIT, GROUPS, SYNC, UNMANAGED, VERSION}

(* ---------------------------------------------------------------------- *)
(* Pure helpers                                                            *)
(* ---------------------------------------------------------------------- *)

RECURSIVE LexLess(_, _)
\* Strict lexicographic order on names (str's Ord).
LexLess(a, b) ==
    IF a = <<>> THEN b # <<>>
    ELSE IF b = <<>> THEN FALSE
    ELSE IF a[1] < b[1] THEN TRUE
    ELSE IF a[1] > b[1] THEN FALSE
    ELSE LexLess(Tail(a), Tail(b))

LexMin(S) == CHOOSE x \in S : \A y \in S : x = y \/ LexLess(x, y)

RECURSIVE Sort(_)
\* The ascending sequence of the elements of a finite set of names.
Sort(S) == IF S = {} THEN <<>> ELSE <<LexMin(S)>> \o Sort(S \ {LexMin(S)})

Range(s) == {s[i] : i \in 1..Len(s)}

\* A printed line.  Every line has the same shape so lines can be compared.
Line(kind, section, package) ==
    [kind |-> kind, section |-> section, package |-> package]

\* An entry of the operation log (a history of the calls the driver makes on
\* its collaborators).
Event(op, section, packages, ok) ==
    [op |-> op, section |-> section, packages |-> packages, ok |-> ok]

(* ---------------------------------------------------------------------- *)
(* Backend (capability contract) and registry                              *)
(* ---------------------------------------------------------------------- *)

\* A fresh backend instance: not loaded, nothing declared.
Backend(section) == [section |-> section, loaded |-> FALSE, declared |-> {}]

\* Backends::iter(): one fresh instance per variant, in the fixed order.
BackendsIter == [i \in 1..Len(Registry) |-> Backend(Registry[i])]

\* backend.load(groups): the declared set is the union, over all groups, of
\* the packages the group declares for this backend's section.
load(b, gs) ==
    [b EXCEPT !.loaded = TRUE,
              !.declared = UNION {g.packages[b.section] : g \in gs}]

\* Mutant of get_missing_packages_sorted: the difference is not sorted.
get_missing_packages_unsorted(b, inst) ==
    SelectSeq(PkgNames, LAMBDA p : p \in b.declared \ inst)

\* diff_missing on a successful query: sort(declared - installed).
get_missing_packages_sorted(b, inst) == Sort(b.declared \ inst)

\* diff_unmanaged on a successful query: sort(explicit - declared).
get_unmanaged_packages_sorted(b, expl) == Sort(expl \ b.declared)

\* What a successful install of pkgs does to a backend's package database.
InstalledAfterInstall(set, pkgs) == set \cup Range(pkgs)

\* What a successful remove of pkgs does to a backend's package database.
InstalledAfterRemove(set, pkgs) == set \ Range(pkgs)

\* Mutant of ActionCanFail: the backend does not special-case the empty set.
ActionCanAlwaysFail(pkgs) == TRUE

\* Whether install/remove of pkgs may fail: the empty set is a guaranteed
\* successful no-op, anything else can fail.
ActionCanFail(pkgs) == pkgs # <<>>

(* ---------------------------------------------------------------------- *)
(* ToDoPerBackend                                                          *)
(* ---------------------------------------------------------------------- *)

\* ToDoPerBackend::new()
ToDoNew == <<>>

\* ToDoPerBackend::push((backend, diff))
ToDoPush(t, b, diff) == Append(t, [backend |-> b, packages |-> diff])

\* has_nothing_to_do: every entry's package set is empty.
nothing_to_do_for_all_backends(t) ==
    \A i \in 1..Len(t) : t[i].packages = <<>>

\* The emptiness test clean uses on the aggregate.
is_empty(t) == \A i \in 1..Len(t) : t[i].packages = <<>>

RECURSIVE PackageLines(_, _)
PackageLines(section, pkgs) ==
    IF pkgs = <<>> THEN <<>>
    ELSE <<Line("package", section, Head(pkgs))>>
         \o PackageLines(section, Tail(pkgs))

\* Mutant of EntryLines: the `if packages.is_empty() { continue; }` is missing.
EntryLinesNoSkip(e) ==
    <<Line("section", e.backend.section, <<>>)>>
    \o PackageLines(e.backend.section, e.packages)

\* The lines printed for one (backend, packages) pair: nothing if the
\* package set is empty, else the section followed by its packages.
EntryLines(e) ==
    IF e.packages = <<>> THEN <<>>
    ELSE <<Line("section", e.backend.section, <<>>)>>
         \o PackageLines(e.backend.section, e.packages)

RECURSIVE SummaryLines(_)
\* The per-backend listing, in aggregate order.
SummaryLines(t) ==
    IF t = <<>> THEN <<>> ELSE EntryLines(Head(t)) \o SummaryLines(Tail(t))

\* ToDoPerBackend::show(): render_summary, printed.
show(t) == SummaryLines(t)

(* ---------------------------------------------------------------------- *)
(* State                                                                   *)
(* ---------------------------------------------------------------------- *)

VARIABLES
    args,       \* Pacdef.args: the subcommand of this run
    groups,     \* Pacdef.groups: the set of Group values
    installed,  \* per section: what query_installed reports
    explicit,   \* per section: what query_explicit reports
    pc,         \* where the run is
    idx,        \* position of the collection loop in Backends::iter()
    cur,        \* the backend instance of the current loop iteration
    todo,       \* the ToDoPerBackend being built / consumed
    execIdx,    \* position of the execution loop in todo
    halted,     \* TRUE once the execution loop has stopped on a failure
    output,     \* the lines printed so far in this run
    log,        \* the calls made on collaborators so far in this run
    result,     \* what run_action_from_arg returned: "none", "Ok" or "Err"
    before,     \* installed/explicit as they were when the run started
    prev,       \* reports of the earlier runs of the session sequence
    editEnv     \* what edit is asked to open and what the group directory holds

vars == <<args, groups, installed, explicit, pc, idx, cur, todo, execIdx,
          halted, output, log, result, before, prev, editEnv>>

N == Len(Registry)

Snapshot == [installed |-> installed, explicit |-> explicit]

\* The system states a run can start from: every backend has some installed
\* packages, of which some were installed explicitly.
SystemStates ==
    {sys \in [installed : [Sections -> SUBSET Packages],
              explicit : [Sections -> SUBSET Packages]] :
        \A s \in Sections : sys.explicit[s] \subseteq sys.installed[s]}

\* What the edit subcommand can be asked to open: no "group" argument at
\* all, or a non-empty list of group file names.
EditRequests ==
    {[present |-> FALSE, files |-> <<>>]}
    \cup {[present |-> TRUE, files |-> <<GroupNames[i]>>] : i \in 1..Len(GroupNames)}
    \cup {[present |-> TRUE, files |-> <<GroupNames[i], GroupNames[j]>>] :
            i \in 1..Len(GroupNames), j \in 1..Len(GroupNames)}

\* The surroundings of an edit run: whether get_pacdef_group_dir finds the
\* group directory, the "group" argument, and the files that exist in the
\* directory (none if there is no directory).
EditEnvs ==
    {e \in [dirOk : BOOLEAN, req : EditRequests,
            existing : SUBSET {GroupNames[i] : i \in 1..Len(GroupNames)}] :
       ~e.dirOk => e.existing = {}}

\* The other subcommands take no "group" argument and read no group file.
NoEdit == [dirOk |-> FALSE, req |-> [present |-> FALSE, files |-> <<>>],
           existing |-> {}]

EditEnvsOf(a) == IF a = EDIT THEN EditEnvs ELSE {NoEdit}

Init ==
    /\ args \in Actions
    /\ groups \in SUBSET GroupUniverse
    /\ \E sys \in SystemStates :
          /\ installed = sys.installed
          /\ explicit = sys.explicit
          /\ before = sys
    /\ pc = "start"
    /\ idx = 1
    /\ cur = Backend("")
    /\ todo = ToDoNew
    /\ execIdx = 1
    /\ halted = FALSE
    /\ output = <<>>
    /\ log = <<>>
    /\ result = "none"
    /\ prev = <<>>
    /\ editEnv \in EditEnvsOf(args)


(* ---------------------------------------------------------------------- *)
(* run_action_from_arg: dispatch                                           *)
(* ---------------------------------------------------------------------- *)

\* The handler each subcommand is dispatched to (its first position).
Handler(a) ==
    CASE a = CLEAN -> "unmanaged_load"
      [] a = EDIT -> "edit"
      [] a = GROUPS -> "groups"
      [] a = SYNC -> "missing_load"
      [] a = UNMANAGED -> "unmanaged_load"
      [] a = VERSION -> "version"

\* match self.args.subcommand() { ... }
Dispatch ==
    /\ pc = "start"
    /\ pc' = Handler(args)
    /\ UNCHANGED <<args, groups, installed, explicit, idx, cur, todo, execIdx,
                   halted, output, log, result, before, prev, editEnv>>

\* The value run_action_from_arg returns for a handler that returns ():
\* Ok(self.handler()).
UnitResult == "Ok"

\* A unit handler has returned; run_action_from_arg wraps it in Ok.
Return ==
    /\ pc = "return"
    /\ result' = UnitResult
    /\ pc' = "done"
    /\ UNCHANGED <<args, groups, installed, explicit, idx, cur, todo, execIdx,
                   halted, output, log, before, prev, editEnv>>

(* ---------------------------------------------------------------------- *)
(* Collection: get_missing_packages and get_unmanaged_packages             *)
(* ---------------------------------------------------------------------- *)

\* Where the collection loop goes after the iteration at position i.
AfterIteration(i, loadPc) == IF i < N THEN loadPc ELSE "collected"

\* Mutant of OnQueryOk: the pair is inserted at the front.
OnQueryOkPushFront(t, b, diff) == <<[backend |-> b, packages |-> diff]>> \o t

\* The Ok arm of the match: the pair is pushed.
OnQueryOk(t, b, diff) == ToDoPush(t, b, diff)

\* Mutant of OnQueryErr: a failed backend is recorded with an empty set.
OnQueryErrPushesEmpty(t, b) == ToDoPush(t, b, <<>>)

\* The Err arm of the match: a warning is printed, nothing is pushed.
OnQueryErr(t, b) == t

\* println!("WARNING: skipping backend '{}': {e}", backend.get_section())
Warning(b) == Line("warning", b.section, <<>>)

\* for mut backend in Backends::iter() { backend.load(&self.groups); ...
\* Mutant of MissingLoad: the backend is queried without having been loaded.
MissingLoadSkipped ==
    /\ pc = "missing_load"
    /\ idx <= N
    /\ cur' = BackendsIter[idx]
    /\ pc' = "missing_query"
    /\ UNCHANGED <<args, groups, installed, explicit, idx, todo, execIdx,
                   halted, output, log, result, before, prev, editEnv>>

MissingLoad ==
    /\ pc = "missing_load"
    /\ idx <= N
    /\ cur' = load(BackendsIter[idx], groups)
    /\ log' = Append(log, Event("load", BackendsIter[idx].section, <<>>, TRUE))
    /\ pc' = "missing_query"
    /\ UNCHANGED <<args, groups, installed, explicit, idx, todo, execIdx,
                   halted, output, result, before, prev, editEnv>>

\* Mutant of MissingQueryOk: the loop asks the backend for its unmanaged
\* packages instead of its missing ones.
MissingQueryOkUnmanagedDiff ==
    /\ pc = "missing_query"
    /\ todo' = OnQueryOk(todo, cur,
                         get_unmanaged_packages_sorted(cur, explicit[cur.section]))
    /\ log' = Append(log, Event("query", cur.section, <<>>, TRUE))
    /\ idx' = idx + 1
    /\ pc' = AfterIteration(idx, "missing_load")
    /\ UNCHANGED <<args, groups, installed, explicit, cur, execIdx, halted,
                   output, result, before, prev, editEnv>>

\* match backend.get_missing_packages_sorted() { Ok(diff) => push
MissingQueryOk ==
    /\ pc = "missing_query"
    /\ todo' = OnQueryOk(todo, cur,
                         get_missing_packages_sorted(cur, installed[cur.section]))
    /\ log' = Append(log, Event("query", cur.section, <<>>, TRUE))
    /\ idx' = idx + 1
    /\ pc' = AfterIteration(idx, "missing_load")
    /\ UNCHANGED <<args, groups, installed, explicit, cur, execIdx, halted,
                   output, result, before, prev, editEnv>>

\* match backend.get_missing_packages_sorted() { Err(e) => println!(WARNING)
MissingQueryErr ==
    /\ pc = "missing_query"
    /\ todo' = OnQueryErr(todo, cur)
    /\ output' = Append(output, Warning(cur))
    /\ log' = Append(log, Event("query", cur.section, <<>>, FALSE))
    /\ idx' = idx + 1
    /\ pc' = AfterIteration(idx, "missing_load")
    /\ UNCHANGED <<args, groups, installed, explicit, cur, execIdx, halted,
                   result, before, prev, editEnv>>

UnmanagedLoad ==
    /\ pc = "unmanaged_load"
    /\ idx <= N
    /\ cur' = load(BackendsIter[idx], groups)
    /\ log' = Append(log, Event("load", BackendsIter[idx].section, <<>>, TRUE))
    /\ pc' = "unmanaged_query"
    /\ UNCHANGED <<args, groups, installed, explicit, idx, todo, execIdx,
                   halted, output, result, before, prev, editEnv>>

\* Mutant of UnmanagedQueryOk: the loop asks the backend for its missing
\* packages instead of its unmanaged ones.
UnmanagedQueryOkMissingDiff ==
    /\ pc = "unmanaged_query"
    /\ todo' = OnQueryOk(todo, cur,
                         get_missing_packages_sorted(cur, installed[cur.section]))
    /\ log' = Append(log, Event("query", cur.section, <<>>, TRUE))
    /\ idx' = idx + 1
    /\ pc' = AfterIteration(idx, "unmanaged_load")
    /\ UNCHANGED <<args, groups, installed, explicit, cur, execIdx, halted,
                   output, result, before, prev, editEnv>>

UnmanagedQueryOk ==
    /\ pc = "unmanaged_query"
    /\ todo' = OnQueryOk(todo, cur,
                         get_unmanaged_packages_sorted(cur, explicit[cur.section]))
    /\ log' = Append(log, Event("query", cur.section, <<>>, TRUE))
    /\ idx' = idx + 1
    /\ pc' = AfterIteration(idx, "unmanaged_load")
    /\ UNCHANGED <<args, groups, installed, explicit, cur, execIdx, halted,
                   output, result, before, prev, editEnv>>

UnmanagedQueryErr ==
    /\ pc = "unmanaged_query"
    /\ todo' = OnQueryErr(todo, cur)
    /\ output' = Append(output, Warning(cur))
    /\ log' = Append(log, Event("query", cur.section, <<>>, FALSE))
    /\ idx' = idx + 1
    /\ pc' = AfterIteration(idx, "unmanaged_load")
    /\ UNCHANGED <<args, groups, installed, explicit, cur, execIdx, halted,
                   result, before, prev, editEnv>>

(* ---------------------------------------------------------------------- *)
(* sync: install_packages                                                  *)
(* ---------------------------------------------------------------------- *)

NothingToDoLine == Line("nothing to do", "", <<>>)

\* Mutant of InstallNothingToDo: the `return` is missing.
InstallNothingToDoFallsThrough ==
    /\ pc = "collected"
    /\ args = SYNC
    /\ nothing_to_do_for_all_backends(todo)
    /\ output' = Append(output, NothingToDoLine)
    /\ pc' = "install_confirm"
    /\ UNCHANGED <<args, groups, installed, explicit, idx, cur, todo, execIdx,
                   halted, log, result, before, prev, editEnv>>

\* if to_install.nothing_to_do_for_all_backends() { println!; return; }
InstallNothingToDo ==
    /\ pc = "collected"
    /\ args = SYNC
    /\ nothing_to_do_for_all_backends(todo)
    /\ output' = Append(output, NothingToDoLine)
    /\ pc' = "return"
    /\ UNCHANGED <<args, groups, installed, explicit, idx, cur, todo, execIdx,
                   halted, log, result, before, prev, editEnv>>

\* Mutant of InstallShow: the confirmation is left out.
InstallShowSkipsConfirm ==
    /\ pc = "collected"
    /\ args = SYNC
    /\ ~nothing_to_do_for_all_backends(todo)
    /\ output' = output \o show(todo)
    /\ pc' = "installing"
    /\ UNCHANGED <<args, groups, installed, explicit, idx, cur, todo, execIdx,
                   halted, log, result, before, prev, editEnv>>

\* to_install.show();
InstallShow ==
    /\ pc = "collected"
    /\ args = SYNC
    /\ ~nothing_to_do_for_all_backends(todo)
    /\ output' = output \o show(todo)
    /\ pc' = "install_confirm"
    /\ UNCHANGED <<args, groups, installed, explicit, idx, cur, todo, execIdx,
                   halted, log, result, before, prev, editEnv>>

\* Mutant of AfterConfirmation: the answer is not looked at.
AfterConfirmationIgnored(answer, execPc) == execPc

\* Where a handler goes once get_user_confirmation() has answered.
AfterConfirmation(answer, execPc) == IF answer THEN execPc ELSE "return"

\* if !get_user_confirmation() { return; }
InstallConfirm ==
    /\ pc = "install_confirm"
    /\ \E answer \in BOOLEAN :
          /\ log' = Append(log, Event("confirm", "", <<>>, answer))
          /\ pc' = AfterConfirmation(answer, "installing")
    /\ UNCHANGED <<args, groups, installed, explicit, idx, cur, todo, execIdx,
                   halted, output, result, before, prev, editEnv>>

\* Whether install_missing_packages goes on to the next pair after an
\* install that ended ok / not ok: a failure ends the execution.
InstallLoopContinues(ok) == ok

\* to_install.install_missing_packages(): one backend.install(packages)
InstallMissing ==
    /\ pc = "installing"
    /\ execIdx <= Len(todo)
    /\ LET e == todo[execIdx]
           s == e.backend.section
       IN \E ok \in {TRUE} \cup (IF ActionCanFail(e.packages) THEN {FALSE} ELSE {}) :
            /\ log' = Append(log, Event("install", s, e.packages, ok))
            /\ installed' = IF ok
                 THEN [installed EXCEPT ![s] = InstalledAfterInstall(@, e.packages)]
                 ELSE installed
            /\ explicit' = IF ok
                 THEN [explicit EXCEPT ![s] = InstalledAfterInstall(@, e.packages)]
                 ELSE explicit
            /\ execIdx' = execIdx + 1
            /\ halted' = ~InstallLoopContinues(ok)
            /\ pc' = IF InstallLoopContinues(ok) /\ execIdx < Len(todo)
                     THEN "installing" ELSE "return"
    /\ UNCHANGED <<args, groups, idx, cur, todo, output, result, before, prev, editEnv>>

(* ---------------------------------------------------------------------- *)
(* clean: clean_packages                                                   *)
(* ---------------------------------------------------------------------- *)

\* Mutant of CleanNothingToDo: the `return` is missing.
CleanNothingToDoFallsThrough ==
    /\ pc = "collected"
    /\ args = CLEAN
    /\ is_empty(todo)
    /\ output' = Append(output, NothingToDoLine)
    /\ pc' = "clean_confirm"
    /\ UNCHANGED <<args, groups, installed, explicit, idx, cur, todo, execIdx,
                   halted, log, result, before, prev, editEnv>>

\* if to_remove.is_empty() { println!("nothing to do"); return; }
CleanNothingToDo ==
    /\ pc = "collected"
    /\ args = CLEAN
    /\ is_empty(todo)
    /\ output' = Append(output, NothingToDoLine)
    /\ pc' = "return"
    /\ UNCHANGED <<args, groups, installed, explicit, idx, cur, todo, execIdx,
                   halted, log, result, before, prev, editEnv>>

WouldRemoveLine == Line("would remove", "", <<>>)

\* println!("Would remove ..."); for (backend, packages) in to_remove.iter()
\* { if packages.is_empty() { continue; } println!(section); println!(pkg) }
CleanShow ==
    /\ pc = "collected"
    /\ args = CLEAN
    /\ ~is_empty(todo)
    /\ output' = Append(output, WouldRemoveLine) \o SummaryLines(todo)
    /\ pc' = "clean_confirm"
    /\ UNCHANGED <<args, groups, installed, explicit, idx, cur, todo, execIdx,
                   halted, log, result, before, prev, editEnv>>

\* if !get_user_confirmation() { return; }
CleanConfirm ==
    /\ pc = "clean_confirm"
    /\ \E answer \in BOOLEAN :
          /\ log' = Append(log, Event("confirm", "", <<>>, answer))
          /\ pc' = AfterConfirmation(answer, "removing")
    /\ UNCHANGED <<args, groups, installed, explicit, idx, cur, todo, execIdx,
                   halted, output, result, before, prev, editEnv>>

\* Whether the removal loop goes on to the next pair after a remove that
\* ended ok / not ok: the statement `backend.remove_packages(packages);`
\* discards what the call returns, so the loop always goes on.
RemoveLoopContinues(ok) == TRUE

\* Mutant of CleanRemove: a remove that failed is invoked once more.
CleanRemoveRetries ==
    /\ pc = "removing"
    /\ execIdx <= Len(todo)
    /\ LET e == todo[execIdx]
           s == e.backend.section
           retried == \E i \in 1..Len(log) :
                         log[i].op = "remove" /\ log[i].section = s
       IN \E ok \in {TRUE} \cup (IF ActionCanFail(e.packages) THEN {FALSE} ELSE {}) :
            /\ log' = Append(log, Event("remove", s, e.packages, ok))
            /\ installed' = IF ok
                 THEN [installed EXCEPT ![s] = InstalledAfterRemove(@, e.packages)]
                 ELSE installed
            /\ explicit' = IF ok
                 THEN [explicit EXCEPT ![s] = InstalledAfterRemove(@, e.packages)]
                 ELSE explicit
            /\ execIdx' = IF ok \/ retried THEN execIdx + 1 ELSE execIdx
            /\ halted' = ~RemoveLoopContinues(ok)
            /\ pc' = IF (ok \/ retried) /\ execIdx >= Len(todo)
                     THEN "return" ELSE "removing"
    /\ UNCHANGED <<args, groups, idx, cur, todo, output, result, before, prev, editEnv>>

\* for (backend, packages) in to_remove.into_iter() {
\*     backend.remove_packages(packages); }
CleanRemove ==
    /\ pc = "removing"
    /\ execIdx <= Len(todo)
    /\ LET e == todo[execIdx]
           s == e.backend.section
       IN \E ok \in {TRUE} \cup (IF ActionCanFail(e.packages) THEN {FALSE} ELSE {}) :
            /\ log' = Append(log, Event("remove", s, e.packages, ok))
            /\ installed' = IF ok
                 THEN [installed EXCEPT ![s] = InstalledAfterRemove(@, e.packages)]
                 ELSE installed
            /\ explicit' = IF ok
                 THEN [explicit EXCEPT ![s] = InstalledAfterRemove(@, e.packages)]
                 ELSE explicit
            /\ execIdx' = execIdx + 1
            /\ halted' = ~RemoveLoopContinues(ok)
            /\ pc' = IF RemoveLoopContinues(ok) /\ execIdx < Len(todo)
                     THEN "removing" ELSE "return"
    /\ UNCHANGED <<args, groups, idx, cur, todo, output, result, before, prev, editEnv>>

(* ---------------------------------------------------------------------- *)
(* unmanaged, groups, version, edit                                        *)
(* ---------------------------------------------------------------------- *)

\* Mutant of ShowUnmanaged: the listing is followed by clean's removal loop.
ShowUnmanagedThenRemoves ==
    /\ pc = "collected"
    /\ args = UNMANAGED
    /\ output' = output \o SummaryLines(todo)
    /\ pc' = "removing"
    /\ UNCHANGED <<args, groups, installed, explicit, idx, cur, todo, execIdx,
                   halted, log, result, before, prev, editEnv>>

\* for (backend, packages) in unmanaged_per_backend.iter() { skip empty;
\* println!(section); println!(package) }
ShowUnmanaged ==
    /\ pc = "collected"
    /\ args = UNMANAGED
    /\ output' = output \o SummaryLines(todo)
    /\ pc' = "return"
    /\ UNCHANGED <<args, groups, installed, explicit, idx, cur, todo, execIdx,
                   halted, log, result, before, prev, editEnv>>

RECURSIVE GroupLines(_)
GroupLines(names) ==
    IF names = <<>> THEN <<>>
    ELSE <<Line("group", "", Head(names))>> \o GroupLines(Tail(names))

\* Mutant of show_groups: the vector is printed without being sorted.
show_groups_unsorted ==
    /\ pc = "groups"
    /\ output' = output \o GroupLines(SelectSeq(GroupNames,
                              LAMBDA n : n \in {g.name : g \in groups}))
    /\ pc' = "return"
    /\ UNCHANGED <<args, groups, installed, explicit, idx, cur, todo, execIdx,
                   halted, log, result, before, prev, editEnv>>

\* vec.sort_unstable(); for g in vec { println!("{}", g.name); }
show_groups ==
    /\ pc = "groups"
    /\ output' = output \o GroupLines(Sort({g.name : g \in groups}))
    /\ pc' = "return"
    /\ UNCHANGED <<args, groups, installed, explicit, idx, cur, todo, execIdx,
                   halted, log, result, before, prev, editEnv>>

\* println!("pacdef, version: {}", env!("CARGO_PKG_VERSION"));
show_version ==
    /\ pc = "version"
    /\ output' = Append(output, Line("version", "", <<>>))
    /\ pc' = "return"
    /\ UNCHANGED <<args, groups, installed, explicit, idx, cur, todo, execIdx,
                   halted, log, result, before, prev, editEnv>>

\* What run_edit_command can do: fail to run, or exit with a status.
EditorOutcomes == {"not run", "exit ok", "exit error"}

\* Mutant of EditPrecheck: the loop that ensures each file exists is missing.
EditPrecheckNoExists(dirOk, req, existing) ==
    IF ~dirOk THEN "Err"
    ELSE IF ~req.present THEN "Err"
    ELSE "editor"

\* The result of edit_group_files before the editor is reached, or "editor"
\* if the editor is reached.
EditPrecheck(dirOk, req, existing) ==
    IF ~dirOk THEN "Err"
    ELSE IF ~req.present THEN "Err"
    ELSE IF \E i \in 1..Len(req.files) : req.files[i] \notin existing THEN "Err"
    ELSE "editor"

\* The result of edit_group_files once run_edit_command has returned.
EditResult(editor) == IF editor = "exit ok" THEN "Ok" ELSE "Err"

\* edit_group_files, as dispatched by run_action_from_arg
edit_group_files ==
    /\ pc = "edit"
    /\ \E editor \in EditorOutcomes :
          IF EditPrecheck(editEnv.dirOk, editEnv.req, editEnv.existing) = "editor"
          THEN /\ log' = Append(log, Event("editor", "", editEnv.req.files,
                                           editor = "exit ok"))
               /\ result' = EditResult(editor)
          ELSE /\ log' = log
               /\ result' = "Err"
    /\ pc' = "done"
    /\ UNCHANGED <<args, groups, installed, explicit, idx, cur, todo, execIdx,
                   halted, output, before, prev, editEnv>>

(* ---------------------------------------------------------------------- *)
(* Specification: one run of one subcommand                                *)
(* ---------------------------------------------------------------------- *)

Next ==
    \/ Dispatch
    \/ Return
    \/ MissingLoad
    \/ MissingQueryOk
    \/ MissingQueryErr
    \/ UnmanagedLoad
    \/ UnmanagedQueryOk
    \/ UnmanagedQueryErr
    \/ InstallNothingToDo
    \/ InstallShow
    \/ InstallConfirm
    \/ InstallMissing
    \/ CleanNothingToDo
    \/ CleanShow
    \/ CleanConfirm
    \/ CleanRemove
    \/ ShowUnmanaged
    \/ show_groups
    \/ show_version
    \/ edit_group_files

Spec == Init /\ [][Next]_vars


(* ---------------------------------------------------------------------- *)
(* Specification: two consecutive runs of sync or clean on one system      *)
(* ---------------------------------------------------------------------- *)

Confirms == SelectSeq(log, LAMBDA e : e.op = "confirm")

Execs == SelectSeq(log, LAMBDA e : e.op \in {"install", "remove"})

Queries == SelectSeq(log, LAMBDA e : e.op = "query")

\* How a run of sync or clean that has ended has ended.
OutcomeOf(l) ==
    LET c == SelectSeq(l, LAMBDA e : e.op = "confirm")
        x == SelectSeq(l, LAMBDA e : e.op \in {"install", "remove"})
    IN IF c = <<>> THEN "nothing to do"
       ELSE IF ~c[1].ok THEN "declined"
       ELSE IF \A i \in 1..Len(x) : x[i].ok THEN "succeeded"
       ELSE "failed"

\* What a finished run has reported: everything it printed and what
\* run_action_from_arg returned.
Report ==
    [args |-> args, outcome |-> OutcomeOf(log), output |-> output,
     result |-> result]

\* The first of the two runs is a sync or a clean.
InitRuns ==
    /\ args \in {SYNC, CLEAN}
    /\ groups \in SUBSET GroupUniverse
    /\ \E sys \in SystemStates :
          /\ installed = sys.installed
          /\ explicit = sys.explicit
          /\ before = sys
    /\ pc = "start"
    /\ idx = 1
    /\ cur = Backend("")
    /\ todo = ToDoNew
    /\ execIdx = 1
    /\ halted = FALSE
    /\ output = <<>>
    /\ log = <<>>
    /\ result = "none"
    /\ prev = <<>>
    /\ editEnv \in EditEnvsOf(args)

\* The process has exited; pacdef is started again on the same groups and
\* the system as the first run left it.
NextRun ==
    /\ pc = "done"
    /\ prev = <<>>
    /\ prev' = <<Report>>
    /\ args' \in {SYNC, CLEAN}
    /\ before' = Snapshot
    /\ pc' = "start"
    /\ idx' = 1
    /\ cur' = Backend("")
    /\ todo' = ToDoNew
    /\ execIdx' = 1
    /\ halted' = FALSE
    /\ output' = <<>>
    /\ log' = <<>>
    /\ result' = "none"
    /\ UNCHANGED <<groups, installed, explicit, editEnv>>

NextRuns ==
    \/ Dispatch
    \/ Return
    \/ MissingLoad
    \/ MissingQueryOk
    \/ MissingQueryErr
    \/ UnmanagedLoad
    \/ UnmanagedQueryOk
    \/ UnmanagedQueryErr
    \/ InstallNothingToDo
    \/ InstallShow
    \/ InstallConfirm
    \/ InstallMissing
    \/ CleanNothingToDo
    \/ CleanShow
    \/ CleanConfirm
    \/ CleanRemove
    \/ NextRun

SpecRuns == InitRuns /\ [][NextRuns]_vars


(* ---------------------------------------------------------------------- *)
(* Properties                                                              *)
(* ---------------------------------------------------------------------- *)

CollectingPcs ==
    {"missing_load", "missing_query", "unmanaged_load", "unmanaged_query"}

Collects == args \in {SYNC, CLEAN, UNMANAGED}

\* The collection loop has run to its end.
Collected ==
    /\ Collects
    /\ pc \notin CollectingPcs \cup {"start"}

EntrySections(t) == {t[i].backend.section : i \in 1..Len(t)}

QueriedOk == {log[i].section : i \in {j \in 1..Len(log) :
                                        log[j].op = "query" /\ log[j].ok}}

QueriedErr == {log[i].section : i \in {j \in 1..Len(log) :
                                         log[j].op = "query" /\ ~log[j].ok}}

IsSuffix(s, t) ==
    /\ Len(s) <= Len(t)
    /\ \A i \in 1..Len(s) : s[i] = t[Len(t) - Len(s) + i]

\* C1: partial-failure isolation in the collection phase.  For sync, clean
\* and unmanaged and every subset of backends whose diff query fails, the
\* aggregate has an entry for exactly the backends whose query succeeded
\* (none, not even an empty one, for one whose query failed), the loop never
\* gets stuck while collecting, and when it has ended every Registry backend
\* has been queried.
C1_PartialFailureIsolation ==
    Collects =>
      /\ EntrySections(todo) = QueriedOk
      /\ EntrySections(todo) \cap QueriedErr = {}
      /\ Len(todo) = Cardinality(QueriedOk)
      /\ pc \in CollectingPcs => ENABLED (MissingLoad \/ MissingQueryOk
                                          \/ MissingQueryErr \/ UnmanagedLoad
                                          \/ UnmanagedQueryOk \/ UnmanagedQueryErr)
      /\ Collected => QueriedOk \cup QueriedErr = Sections

\* A sync or clean collection has ended in which the first backend's query
\* failed and the second one's succeeded.
C1_Witness ==
    /\ pc = "collected"
    /\ args \in {SYNC, CLEAN}
    /\ QueriedErr = {Registry[1]}
    /\ EntrySections(todo) = {Registry[2]}

\* C2 (as claimed): an install/remove failure in the confirmed execution
\* phase ends the run in an error that run_action_from_arg returns, and no
\* install/remove is invoked on a backend after the failing one.
C2_FailureIsTerminal ==
    /\ \A i \in 1..Len(Execs) : ~Execs[i].ok => i = Len(Execs)
    /\ (pc = "done" /\ args \in {SYNC, CLEAN}
        /\ \E i \in 1..Len(Execs) : ~Execs[i].ok) => result = "Err"

\* C3: a declined confirmation leaves the system unchanged.  Whenever
\* get_user_confirmation has returned false in a sync or clean run, no
\* install or remove has been invoked and every backend's installed and
\* explicit sets are as they were when the run started.
C3_DeclinedLeavesSystemUnchanged ==
    (\E i \in 1..Len(Confirms) : ~Confirms[i].ok) =>
      /\ Execs = <<>>
      /\ Snapshot = before

\* A sync or clean run has ended after the user declined.
C3_Witness ==
    /\ pc = "done"
    /\ args \in {SYNC, CLEAN}
    /\ Len(Confirms) = 1
    /\ ~Confirms[1].ok
    /\ \E i \in 1..Len(todo) : todo[i].packages # <<>>

AllEntriesEmpty == \A i \in 1..Len(todo) : todo[i].packages = <<>>

\* C4: in clean, once collection has ended with every collected unmanaged
\* set empty (zero entries included), the run prints "nothing to do" and
\* returns: it never asks for confirmation and never invokes remove.
C4_CleanNothingToDo ==
    (args = CLEAN /\ Collected /\ pc # "collected" /\ AllEntriesEmpty) =>
      /\ pc \in {"return", "done"}
      /\ output # <<>>
      /\ output[Len(output)] = NothingToDoLine
      /\ Confirms = <<>>
      /\ Execs = <<>>

\* A clean run has ended whose aggregate holds an entry, all entries empty.
C4_Witness ==
    /\ args = CLEAN
    /\ pc = "done"
    /\ todo # <<>>
    /\ AllEntriesEmpty

\* C5: in sync, the run prints "nothing to do" and returns without asking
\* for confirmation or invoking install if and only if every collected
\* missing set is empty (zero entries included); otherwise the summary is
\* shown (it is the end of the output) and confirmation is requested.
C5_SyncNothingToDoIff ==
    (args = SYNC /\ pc \in {"return", "done"}) =>
      /\ AllEntriesEmpty <=>
           (/\ NothingToDoLine \in Range(output)
            /\ Confirms = <<>>
            /\ Execs = <<>>)
      /\ ~AllEntriesEmpty =>
           (/\ SummaryLines(todo) # <<>>
            /\ IsSuffix(SummaryLines(todo), output)
            /\ Len(Confirms) = 1)

\* A sync run has ended with one empty and one non-empty missing set.
C5_Witness ==
    /\ args = SYNC
    /\ pc = "done"
    /\ \E i \in 1..Len(todo) : todo[i].packages = <<>>
    /\ \E i \in 1..Len(todo) : todo[i].packages # <<>>

\* The state of the per-run state machine the run is in.
Phase ==
    IF pc = "start" THEN "Idle"
    ELSE IF pc \in CollectingPcs \cup {"collected"} THEN "Collecting"
    ELSE IF pc \in {"install_confirm", "clean_confirm"} THEN "AwaitingConfirmation"
    ELSE IF pc \in {"installing", "removing"} THEN "Executing"
    ELSE IF Confirms = <<>> THEN "Empty"
    ELSE IF ~Confirms[1].ok THEN "Declined"
    ELSE "Done"

\* The transitions of the state machine (NonEmpty and Confirmed are the
\* instants at which AwaitingConfirmation and Executing are entered).
PhaseSteps ==
    {<<"Idle", "Collecting">>,
     <<"Collecting", "Empty">>,
     <<"Collecting", "AwaitingConfirmation">>,
     <<"AwaitingConfirmation", "Declined">>,
     <<"AwaitingConfirmation", "Executing">>,
     <<"Executing", "Done">>}

C6_Order ==
    /\ Len(Confirms) <= 1
    /\ \A j \in 1..Len(log) :
         /\ log[j].op = "confirm" =>
              /\ \A s \in Sections :
                   /\ \E i \in 1..(j - 1) : log[i].op = "load" /\ log[i].section = s
                   /\ \E i \in 1..(j - 1) : log[i].op = "query" /\ log[i].section = s
              /\ \A i \in (j + 1)..Len(log) : log[i].op \notin {"load", "query"}
              /\ SummaryLines(todo) # <<>>
              /\ IsSuffix(SummaryLines(todo), output)
         /\ log[j].op \in {"install", "remove"} =>
              \E i \in 1..(j - 1) : log[i].op = "confirm" /\ log[i].ok

C6_Step ==
    (args \in {SYNC, CLEAN} /\ Phase' # Phase) => <<Phase, Phase'>> \in PhaseSteps

\* C6: every run of sync or clean follows Idle -> Collecting -> (Empty |
\* AwaitingConfirmation -> (Declined | Executing -> Done)); confirmation is
\* requested at most once, only after every Registry backend was loaded and
\* queried and the summary was printed; install/remove happen only after a
\* confirmation that returned true; no load or query follows the request.
C6_StateMachine == [](args \in {SYNC, CLEAN} => C6_Order) /\ [][C6_Step]_vars

\* A confirmed clean run has run its removals to the end.
C6_Witness ==
    /\ args = CLEAN
    /\ pc = "done"
    /\ Phase = "Done"
    /\ Len(Execs) = N

\* C7: unmanaged is read-only.  In every run of unmanaged, whatever queries
\* fail, confirmation is never requested, install and remove are never
\* invoked and every backend's installed and explicit sets stay as they
\* were when the run started.
C7_UnmanagedReadOnly ==
    args = UNMANAGED =>
      /\ Confirms = <<>>
      /\ Execs = <<>>
      /\ Snapshot = before

\* An unmanaged run has ended that listed packages and skipped a backend.
C7_Witness ==
    /\ args = UNMANAGED
    /\ pc = "done"
    /\ QueriedErr # {}
    /\ \E i \in 1..Len(output) : output[i].kind = "package"

\* C8: in every state, the aggregate has at most one entry per section and
\* its entries are in Registry order (their registry positions strictly
\* increase), whichever backends fail.
C8_OneEntryPerSectionInOrder ==
    /\ \A i, j \in 1..Len(todo) :
         i < j => SectionIndex(todo[i].backend.section)
                    < SectionIndex(todo[j].backend.section)
    /\ \A i, j \in 1..Len(todo) :
         todo[i].backend.section = todo[j].backend.section => i = j
    /\ EntrySections(todo) \subseteq Sections

\* The aggregate holds an entry for every Registry backend.
C8_Witness ==
    /\ pc = "collected"
    /\ Len(todo) = N

C9_Step ==
    (/\ Len(log') = Len(log) + 1
     /\ log'[Len(log')].op \in {"install", "remove"}
     /\ log'[Len(log')].packages = <<>>) =>
       /\ log'[Len(log')].ok
       /\ installed' = installed
       /\ explicit' = explicit
       /\ ~halted'

FinishedRuns == Range(prev) \cup (IF pc = "done" THEN {Report} ELSE {})

Reported(r) == <<r.output, r.result>>

\* C10 (as claimed): any two runs of sync or clean that end in different
\* ones of "nothing to do", "declined by user" and "succeeded" differ in
\* what they report (printed lines and returned result).
C10_ThreeOutcomesDistinct ==
    \A r1, r2 \in FinishedRuns :
      (/\ r1.outcome \in {"nothing to do", "declined", "succeeded"}
       /\ r2.outcome \in {"nothing to do", "declined", "succeeded"}
       /\ r1.outcome # r2.outcome) => Reported(r1) # Reported(r2)

\* C10 (amended): a run of sync or clean that ends in "nothing to do"
\* reports differently from every run that ends declined or succeeded: it
\* prints the "nothing to do" line, which those runs never print.
C10_NothingToDoDistinct ==
    /\ \A r1, r2 \in FinishedRuns :
         (/\ r1.outcome = "nothing to do"
          /\ r2.outcome \in {"declined", "succeeded"}) =>
            Reported(r1) # Reported(r2)
    /\ \A r \in FinishedRuns :
         r.outcome \in {"nothing to do", "declined", "succeeded"} =>
           (r.outcome = "nothing to do" <=> NothingToDoLine \in Range(r.output))

\* A run that had nothing to do was followed by a declined run.
C10_Witness ==
    /\ pc = "done"
    /\ prev # <<>>
    /\ prev[1].outcome = "nothing to do"
    /\ OutcomeOf(log) = "declined"

\* The section and package lines printed so far, in order.
Listing == SelectSeq(output, LAMBDA l : l.kind \in {"section", "package"})

RECURSIVE ParseListing(_, _)
\* The listing read back as a reader sees it: each section line opens a
\* block, each package line belongs to the block opened last.
ParseListing(lines, acc) ==
    IF lines = <<>> THEN acc
    ELSE LET l == Head(lines)
         IN IF l.kind = "section"
            THEN ParseListing(Tail(lines),
                   Append(acc, [section |-> l.section, packages |-> <<>>]))
            ELSE IF acc = <<>>
            THEN ParseListing(Tail(lines),
                   Append(acc, [section |-> "", packages |-> <<l.package>>]))
            ELSE ParseListing(Tail(lines),
                   [acc EXCEPT ![Len(acc)].packages = Append(@, l.package)])

\* The (section, packages) pairs of the entries whose set is non-empty, in
\* aggregate order.
NonEmptyEntries(t) ==
    LET ne == SelectSeq(t, LAMBDA e : e.packages # <<>>)
    IN [i \in 1..Len(ne) |->
          [section |-> ne[i].backend.section, packages |-> ne[i].packages]]

\* C11: the displays of unmanaged and of clean skip entries with an empty
\* set.  Once the handler is past its display, the printed listing read
\* back block by block is exactly the sequence of (section, packages) of
\* the collected entries with a non-empty set, in aggregate order, each
\* with that entry's packages in the entry's order; in clean the listing
\* follows the "Would remove" line.
C11_SummarySkipsEmpty ==
    (args \in {CLEAN, UNMANAGED} /\ Collected /\ pc # "collected") =>
      /\ ParseListing(Listing, <<>>) = NonEmptyEntries(todo)
      /\ \A i, j \in 1..Len(output) :
           (output[i] = WouldRemoveLine
            /\ output[j].kind \in {"section", "package"}) => i < j

\* clean has displayed an aggregate with an empty entry and an entry of two
\* packages.
C11_Witness ==
    /\ args = CLEAN
    /\ pc = "clean_confirm"
    /\ \E i \in 1..Len(todo) : todo[i].packages = <<>>
    /\ \E i \in 1..Len(todo) : Len(todo[i].packages) = 2

\* A sequence of names is strictly ascending in the lexicographic order.
Ascending(p) == \A a, b \in 1..Len(p) : a < b => LexLess(p[a], p[b])

\* C12: for every backend B with declared set D and installed set I, the
\* missing-package diff collected for B by get_missing_packages is
\* sort(D \ I): it holds exactly the names of D that are not in I, no name
\* twice, in ascending lexicographic order.
C12_MissingDiffSorted ==
    args = SYNC =>
      \A i \in 1..Len(todo) :
        LET e == todo[i]
            D == e.backend.declared
            I == before.installed[e.backend.section]
        IN /\ Range(e.packages) = D \ I
           /\ Len(e.packages) = Cardinality(Range(e.packages))
           /\ Ascending(e.packages)

\* sync has collected a diff of two packages, and a diff that leaves out an
\* installed declared package.
C12_Witness ==
    /\ args = SYNC
    /\ pc = "collected"
    /\ \E i \in 1..Len(todo) : Len(todo[i].packages) = 2
    /\ \E i \in 1..Len(todo) :
         /\ todo[i].packages # <<>>
         /\ todo[i].backend.declared \cap before.installed[todo[i].backend.section] # {}

\* What the system holds for section s after the install/remove calls of
\* the log, when nothing is undone: the state before the run, changed by
\* the calls on s that ended ok.
RECURSIVE EffectOf(_, _, _)
EffectOf(l, s, set) ==
    IF l = <<>> THEN set
    ELSE LET e == Head(l)
             next == IF e.section = s /\ e.ok /\ e.op = "install"
                       THEN set \cup Range(e.packages)
                     ELSE IF e.section = s /\ e.ok /\ e.op = "remove"
                       THEN set \ Range(e.packages)
                     ELSE set
         IN EffectOf(Tail(l), s, next)

\* C13: no rollback and no retry in the execution phase: within one run
\* each collected backend's install/remove is invoked at most once, a failed
\* install/remove is never invoked again, and what the install/remove calls
\* that completed have changed stays in place (also after a later failure,
\* and when the run has ended).
C13_NoRetryNoRollback ==
    /\ Len(Execs) <= Len(todo)
    /\ \A i \in 1..Len(Execs) :
         /\ Execs[i].section = todo[i].backend.section
         /\ \A j \in 1..Len(Execs) :
              Execs[j].section = Execs[i].section => i = j
    /\ \A s \in Sections :
         /\ installed[s] = EffectOf(Execs, s, before.installed[s])
         /\ explicit[s] = EffectOf(Execs, s, before.explicit[s])
         /\ \A i \in 1..Len(Execs) :
              (Execs[i].section = s /\ Execs[i].ok) =>
                 IF Execs[i].op = "install"
                 THEN Range(Execs[i].packages) \subseteq installed[s]
                 ELSE Range(Execs[i].packages) \cap installed[s] = {}

\* A clean run has ended after a remove that took packages away on the
\* first backend and a remove that failed on the second one.
C13_Witness ==
    /\ args = CLEAN
    /\ pc = "done"
    /\ Len(Execs) = 2
    /\ Execs[1].ok /\ Execs[1].packages # <<>>
    /\ ~Execs[2].ok
    /\ installed[Execs[1].section] # before.installed[Execs[1].section]

\* The names printed by the groups action, in printing order.
PrintedNames == [i \in 1..Len(output) |-> output[i].package]

\* C14: the groups action lists the declared group names sorted: the printed
\* sequence holds each group's name exactly once, in ascending order of
\* name, and the action invokes no backend load, query, install or remove
\* (so it leaves the system as it was).
C14_GroupsSorted ==
    args = GROUPS =>
      /\ log = <<>>
      /\ installed = before.installed /\ explicit = before.explicit
      /\ pc \in {"return", "done"} =>
           /\ \A i \in 1..Len(output) : output[i].kind = "group"
           /\ Len(output) = Cardinality(groups)
           /\ Range(PrintedNames) = {g.name : g \in groups}
           /\ Ascending(PrintedNames)

\* The groups action has printed two names.
C14_Witness ==
    /\ args = GROUPS
    /\ pc = "done"
    /\ Len(output) = 2
    /\ output[1].package # output[2].package

\* The packages the Groups declare for section s.
DeclaredFor(s) == UNION {g.packages[s] : g \in groups}

\* The remove calls of the log.
Removes == SelectSeq(log, LAMBDA e : e.op = "remove")

\* C15: clean never removes a declared package or a dependency: every
\* package passed to a backend's remove was in that backend's explicitly
\* installed set and not in its declared set when the diff was collected;
\* the sequence passed is exactly the unmanaged set sort(E \ D) collected for
\* the backend, and remove is invoked only on a backend that has a
\* collected entry, never on one that was skipped with a warning.
C15_CleanRemovesOnlyUnmanaged ==
    /\ Removes # <<>> => args = CLEAN
    /\ \A i \in 1..Len(Removes) :
         LET e == Removes[i]
             s == e.section
             E == before.explicit[s]
             D == DeclaredFor(s)
         IN /\ s \in QueriedOk /\ s \notin QueriedErr
            /\ \E k \in 1..Len(todo) :
                 todo[k].backend.section = s /\ todo[k].packages = e.packages
            /\ Range(e.packages) = E \ D
            /\ Len(e.packages) = Cardinality(E \ D)
            /\ Ascending(e.packages)
            /\ \A p \in Range(e.packages) :
                 /\ p \notin D
                 /\ p \in E
                 /\ p \notin before.installed[s] \ E

\* A confirmed clean has removed packages of a backend that also holds an
\* explicitly installed declared package, and packages of a backend that
\* also holds a dependency.
C15_Witness ==
    /\ args = CLEAN
    /\ \E i \in 1..Len(Removes) :
         /\ Removes[i].packages # <<>>
         /\ before.explicit[Removes[i].section] \cap DeclaredFor(Removes[i].section) # {}
    /\ \E i \in 1..Len(Removes) :
         /\ Removes[i].packages # <<>>
         /\ before.installed[Removes[i].section]
              # before.explicit[Removes[i].section]

\* The install calls of the log.
Installs == SelectSeq(log, LAMBDA e : e.op = "install")

\* C16: sync installs only what is declared but missing: in a confirmed
\* sync run install is invoked per collected (backend, packages) pair, in
\* the order of the aggregate, with exactly the missing set computed for
\* that backend during collection; so every package passed to install was
\* declared for the backend and not installed at collection time, and
\* install is never invoked on a backend that was skipped with a warning.
C16_SyncInstallsOnlyMissing ==
    /\ Installs # <<>> =>
         /\ args = SYNC
         /\ Len(Confirms) = 1 /\ Confirms[1].ok
    /\ Len(Installs) <= Len(todo)
    /\ \A i \in 1..Len(Installs) :
         LET e == Installs[i]
             s == e.section
             D == DeclaredFor(s)
             I == before.installed[s]
         IN /\ s = todo[i].backend.section
            /\ e.packages = todo[i].packages
            /\ s \in QueriedOk /\ s \notin QueriedErr
            /\ Range(e.packages) = D \ I
            /\ \A p \in Range(e.packages) : p \in D /\ p \notin I

\* A confirmed sync has installed packages on both backends, one of which
\* already had a declared package installed.
C16_Witness ==
    /\ args = SYNC
    /\ Len(Installs) = 2
    /\ Installs[1].packages # <<>> /\ Installs[2].packages # <<>>
    /\ \E i \in 1..2 :
         DeclaredFor(Installs[i].section) \cap before.installed[Installs[i].section] # {}

\* The load and query calls of the log, and the positions of a kind of call.
LoadsAndQueries == SelectSeq(log, LAMBDA e : e.op \in {"load", "query"})

Positions(ops, s) ==
    {i \in 1..Len(log) : log[i].op \in ops /\ log[i].section = s}

\* C17: backend lifecycle per run: in sync, clean and unmanaged every
\* backend the Registry produces is loaded exactly once with the full Group
\* set, its diff query is issued exactly once and only after its load, the
\* backends are processed strictly one after another in Registry order
\* (load k, query k, load k+1, query k+1, ...), and install/remove is only
\* ever invoked on a loaded backend.
C17_BackendLifecycle ==
    /\ Len(LoadsAndQueries) <= 2 * N
    /\ \A i \in 1..Len(LoadsAndQueries) :
         /\ LoadsAndQueries[i].op = IF i % 2 = 1 THEN "load" ELSE "query"
         /\ LoadsAndQueries[i].section = Registry[(i + 1) \div 2]
    /\ LoadsAndQueries # <<>> => Collects
    /\ Collected => Len(LoadsAndQueries) = 2 * N
    /\ pc \in {"missing_query", "unmanaged_query"} =>
         /\ cur.loaded
         /\ cur.declared = DeclaredFor(cur.section)
         /\ Len(LoadsAndQueries) % 2 = 1
         /\ LoadsAndQueries[Len(LoadsAndQueries)].section = cur.section
    /\ \A k \in 1..Len(todo) :
         /\ todo[k].backend.loaded
         /\ todo[k].backend.declared = DeclaredFor(todo[k].backend.section)
    /\ \A i \in 1..Len(log) :
         log[i].op \in {"install", "remove"} =>
           /\ \E k \in 1..Len(todo) :
                todo[k].backend.section = log[i].section /\ todo[k].backend.loaded
           /\ \E j \in Positions({"load"}, log[i].section) : j < i
           /\ \A j \in 1..Len(log) : log[j].op \in {"load", "query"} => j < i

\* All backends have been loaded and queried, at least one of them with a
\* non-empty declared set, and an install or remove has been invoked.
C17_Witness ==
    /\ Collected
    /\ Len(LoadsAndQueries) = 2 * N
    /\ \E s \in Sections : DeclaredFor(s) # {}
    /\ Execs # <<>>
    /\ Execs[1].packages # <<>>

\* The invocations of the external editor, and whether a requested group
\* file is missing from the group directory.
Editors == SelectSeq(log, LAMBDA e : e.op = "editor")

FileMissing ==
    \E i \in 1..Len(editEnv.req.files) :
       editEnv.req.files[i] \notin editEnv.existing

\* C18: edit fails fast: if any requested group file does not exist in the
\* group directory, edit returns an error and the editor is never invoked;
\* if all requested files exist, the editor is invoked exactly once with all
\* of them; edit returns Ok if and only if the editor was run and exited
\* successfully; nothing is retried (at most one editor invocation per run).
C18_EditFailsFast ==
    /\ Len(Editors) <= 1
    /\ Editors # <<>> => args = EDIT /\ pc = "done"
    /\ (args = EDIT /\ pc = "done") =>
         /\ result = "Ok" <=> (Len(Editors) = 1 /\ Editors[1].ok)
         /\ result \in {"Ok", "Err"}
         /\ (editEnv.req.present /\ FileMissing) =>
              /\ result = "Err"
              /\ Editors = <<>>
         /\ (editEnv.dirOk /\ editEnv.req.present /\ ~FileMissing) =>
              /\ Len(Editors) = 1
              /\ Editors[1].packages = editEnv.req.files
         /\ installed = before.installed /\ explicit = before.explicit

\* edit was asked for two group files of which the first exists and the
\* second does not, and has returned.
C18_Witness ==
    /\ args = EDIT
    /\ pc = "done"
    /\ editEnv.dirOk
    /\ Len(editEnv.req.files) = 2
    /\ editEnv.req.files[1] \in editEnv.existing
    /\ editEnv.req.files[2] \notin editEnv.existing
    /\ result = "Err"

\* The run before this one was a sync that was confirmed, in which no
\* backend query failed and every install succeeded.
FirstSyncConverged ==
    /\ prev # <<>>
    /\ prev[1].args = SYNC
    /\ prev[1].outcome = "succeeded"
    /\ \A i \in 1..Len(prev[1].output) : prev[1].output[i].kind # "warning"

\* C19: convergence of sync: if a sync run is confirmed, every backend's
\* install succeeds by installing exactly the given set and no backend query
\* fails, then a second sync run over the same Groups collects an empty
\* missing set for every backend, reports "nothing to do", requests no
\* confirmation and invokes no install.
C19_SyncConverges ==
    (FirstSyncConverged /\ args = SYNC /\ QueriedErr = {}) =>
      /\ \A k \in 1..Len(todo) : todo[k].packages = <<>>
      /\ Confirms = <<>>
      /\ Execs = <<>>
      /\ pc \notin {"install_confirm", "installing"}
      /\ Collected => Len(todo) = N
      /\ pc \in {"return", "done"} => output = <<NothingToDoLine>>

\* The second sync has ended after a first sync that listed and installed
\* packages.
C19_Witness ==
    /\ FirstSyncConverged
    /\ \E i \in 1..Len(prev[1].output) : prev[1].output[i].kind = "package"
    /\ args = SYNC
    /\ QueriedErr = {}
    /\ pc = "done"
    /\ output = <<NothingToDoLine>>
    /\ \E s \in Sections : DeclaredFor(s) # {} /\ DeclaredFor(s) \subseteq installed[s]

====
